---- MODULE Spec2Model ----
(***************************************************************************)
(* Multi-exit ElasticBERT encoder with CKA-based early exit                *)
(* (finetune-dynamic/models/modeling_elasticbert_kernel.py).               *)
(*                                                                         *)
(* The model keeps the control logic of the three forward modes of         *)
(* ElasticBertModel, the encoder's exit bookkeeping, the inference         *)
(* statistics and the teacher/student split of the training loss.  Tensor  *)
(* contents are abstracted: a pooled output is named by the layer that     *)
(* produced it, a logit set by the exit head and the layer it was computed *)
(* from, and a linear-CKA similarity by its value in hundredths.           *)
(* Python exceptions are results: every operator that models a call        *)
(* returns a record whose err field names the exception type ("" = none).  *)
(***************************************************************************)
EXTENDS Integers, Sequences, FiniteSets, TLC

\* ------------------------------------------------------------------ bounds
MaxN == 4              \* largest num_hidden_layers explored
MaxThreshold == 2      \* largest infer_threshold explored
MaxCalls == 2          \* gated-inference calls recorded between two resets
MaxLoss == 3           \* per-exit loss values 1..MaxLoss where exits are split

\* -------------------------------------------------------- program constants
Delta == 6             \* stability threshold 0.06, in hundredths
Inf == 10000           \* float("inf"), the initial kernel_similarity entries
TeacherCount == 6      \* sorted_id[:6] are teachers, sorted_id[6:] students

\* Values linear_CKA returns, in hundredths: 89 and 94 are closer than Delta,
\* 94 and 100 are not.
SimValues == {89, 94, 100}

\* Per-exit loss values (ties included).
LossValues == {1, 2}

OutputAttentions == FALSE     \* config.output_attentions default
OutputHiddenStates == FALSE   \* config.output_hidden_states default

NoErr == ""

\* ------------------------------------------------------------- configuration
\* Every configuration up to MaxN layers that passes the constructor's
\* assertion num_output_layers <= num_hidden_layers, and the single-exit
\* six-layer model of the end-to-end scenario.
ScenarioLayers == {6}

Configs ==
  { c \in [num_hidden_layers : 1..MaxN, num_output_layers : 1..MaxN,
           max_output_layers : 1..MaxN, add_pooling_layer : BOOLEAN] :
      c.num_output_layers <= c.num_hidden_layers }
  \cup [num_hidden_layers : ScenarioLayers, num_output_layers : {1},
        max_output_layers : ScenarioLayers, add_pooling_layer : BOOLEAN]

\* ElasticBertEncoder.__init__: start_output_layer (None modelled as -1)
start_output_layerFirst(cfg) == IF cfg.num_output_layers > 1 THEN 0 ELSE -1
start_output_layer(cfg) ==
  IF cfg.num_output_layers > 1
    THEN cfg.num_hidden_layers - cfg.num_output_layers
    ELSE -1

\* ElasticBertEncoder.__init__: current_pooler_num (None modelled as -1)
current_pooler_num(cfg) ==
  IF cfg.num_output_layers > 1 THEN -1 ELSE cfg.num_hidden_layers - 1

\* ElasticBertEncoder.__init__: the pooler bank.  Entry j (1-based) stands for
\* Python index j-1; TRUE is a constructed ElasticBertPooler, FALSE is None.
pooler(cfg) ==
  IF ~cfg.add_pooling_layer THEN << >>
  ELSE IF cfg.num_output_layers > 1
    THEN [j \in 1..cfg.max_output_layers |->
            (j - 1) >= start_output_layer(cfg) /\ (j - 1) <= cfg.num_hidden_layers - 1]
    ELSE [j \in 1..cfg.max_output_layers |-> (j - 1) = current_pooler_num(cfg)]

\* self.pooler[idx](hidden_states) for idx >= 0: IndexError past the end of
\* the ModuleList, TypeError when the slot holds None.
PoolerCall(cfg, idx) ==
  IF idx + 1 > Len(pooler(cfg)) THEN "IndexError"
  ELSE IF ~pooler(cfg)[idx + 1] THEN "TypeError"
  ELSE NoErr

\* The index at which the forward pass reads the pooler bank at exit layer i:
\* self.pooler[i - self.start_output_layer] with several exits,
\* self.pooler[self.current_pooler_num] with one.
PoolerSlot(cfg, i) ==
  IF cfg.num_output_layers > 1
    THEN i - start_output_layer(cfg)
    ELSE current_pooler_num(cfg)

\* ------------------------------------------------------------------ encoder
\* Loop state of ElasticBertEncoder.forward.
EncStart ==
  [err |-> NoErr, layers_run |-> 0,
   output_sequence_outputs |-> << >>, output_pooled_outputs |-> << >>,
   final_pooled_output |-> << >>, rescales |-> << >>]

\* gradient_rescale(hidden_states, num/den) applied at layer i (training only)
RescaleUnit(acc, train, i, num, den) ==
  IF train
    THEN Append(acc, [site |-> "encoder", layer |-> i, num |-> 1, den |-> 1])
    ELSE acc
RescaleAlways(acc, train, i, num, den) ==
  Append(acc, [site |-> "encoder", layer |-> i, num |-> num, den |-> den])
Rescale(acc, train, i, num, den) ==
  IF train
    THEN Append(acc, [site |-> "encoder", layer |-> i, num |-> num, den |-> den])
    ELSE acc

\* One iteration of the layer loop of ElasticBertEncoder.forward (layer i).
EncoderLayer(cfg, train, i, acc) ==
  LET N == cfg.num_hidden_layers
      ran == [acc EXCEPT !.layers_run = i + 1]
  IN IF cfg.num_output_layers > 1
       THEN IF i >= start_output_layer(cfg)
              THEN LET r1 == Rescale(ran.rescales, train, i, 1, N - i)
                       seqs == Append(ran.output_sequence_outputs, i)
                       call == IF cfg.add_pooling_layer
                                 THEN PoolerCall(cfg, i - start_output_layer(cfg))
                                 ELSE NoErr
                   IN IF call # NoErr
                        THEN [ran EXCEPT !.err = call, !.rescales = r1,
                                         !.output_sequence_outputs = seqs]
                        ELSE [ran EXCEPT
                                !.output_sequence_outputs = seqs,
                                !.output_pooled_outputs =
                                   Append(@, [layer |-> i, pooler |-> cfg.add_pooling_layer]),
                                !.rescales = Rescale(r1, train, i, N - i - 1, 1)]
              ELSE ran
       ELSE IF i = N - 1
              THEN LET call == IF cfg.add_pooling_layer
                                 THEN PoolerCall(cfg, current_pooler_num(cfg))
                                 ELSE NoErr
                   IN IF call # NoErr
                        THEN [ran EXCEPT !.err = call]
                        ELSE [ran EXCEPT !.final_pooled_output =
                                 << [layer |-> i, pooler |-> cfg.add_pooling_layer] >>]
              ELSE ran

RECURSIVE EncoderLoop(_, _, _, _)
EncoderLoop(cfg, train, i, acc) ==
  IF i >= cfg.num_hidden_layers \/ acc.err # NoErr THEN acc
  ELSE EncoderLoop(cfg, train, i + 1, EncoderLayer(cfg, train, i, acc))

\* The tuple ElasticBertEncoder.forward returns: the non-None values among
\* hidden_states, output_sequence_outputs, output_pooled_outputs,
\* final_pooled_output, all_hidden_states, all_self_attentions.
EncoderTuple(cfg, acc) ==
  << [name |-> "hidden_states", kind |-> "tensor", items |-> << >>] >>
  \o (IF cfg.num_output_layers > 1
        THEN << [name |-> "output_sequence_outputs", kind |-> "tuple",
                 items |-> acc.output_sequence_outputs],
                [name |-> "output_pooled_outputs", kind |-> "tuple",
                 items |-> acc.output_pooled_outputs] >>
        ELSE << >>)
  \o (IF acc.final_pooled_output # << >>
        THEN << [name |-> "final_pooled_output", kind |-> "tensor",
                 items |-> acc.final_pooled_output] >>
        ELSE << >>)
  \o (IF OutputHiddenStates
        THEN << [name |-> "all_hidden_states", kind |-> "tuple",
                 items |-> [k \in 1..cfg.num_hidden_layers |-> k - 1]] >>
        ELSE << >>)
  \o (IF OutputAttentions
        THEN << [name |-> "all_self_attentions", kind |-> "tuple",
                 items |-> [k \in 1..cfg.num_hidden_layers |-> k - 1]] >>
        ELSE << >>)

\* ElasticBertEncoder.forward
EncoderForward(cfg, train) ==
  LET acc == EncoderLoop(cfg, train, 0, EncStart)
  IN [err |-> acc.err, layers_run |-> acc.layers_run, rescales |-> acc.rescales,
      out |-> IF acc.err = NoErr THEN EncoderTuple(cfg, acc) ELSE << >>]

\* The gates a gradient passes on its way from the head of exit layer j back
\* to the input of the first exit layer: the gate in front of exit j's
\* outputs and both gates of every exit layer below j, that is the encoder's
\* rescale operations, in program order, up to the first one at layer j.
GradientPath(rescales, j) ==
  LET IsEncoder(r) == r.site = "encoder"
      gates == SelectSeq(rescales, IsEncoder)
      first == CHOOSE k \in 1..Len(gates) :
                 /\ gates[k].layer = j
                 /\ \A m \in 1..(k - 1) : gates[m].layer # j
  IN SubSeq(gates, 1, first)

\* GradientRescaleFunction.backward multiplies the gradient by the gate's
\* weight: the product of the weights along a path, as a ratio.
RECURSIVE BackwardScale(_)
BackwardScale(gates) ==
  IF gates = << >> THEN [num |-> 1, den |-> 1]
  ELSE LET rest == BackwardScale(Tail(gates))
       IN [num |-> gates[1].num * rest.num, den |-> gates[1].den * rest.den]

\* The layers at which a forward pass of the encoder has emitted a pooled
\* representation (output_pooled_outputs or final_pooled_output).
EmittedExits(cfg, train) ==
  LET acc == EncoderLoop(cfg, train, 0, EncStart)
  IN { acc.output_pooled_outputs[k].layer : k \in 1..Len(acc.output_pooled_outputs) }
     \cup { acc.final_pooled_output[k].layer : k \in 1..Len(acc.final_pooled_output) }

\* --------------------------------------------------------- Python indexing
\* len(t) of a returned tuple element
PyLen(elem) == Len(elem.items)

\* t[i] for i >= 0 on a tuple (or on the batch dimension of a tensor)
HasItem(elem, i) == i >= 0 /\ i < PyLen(elem)
GetItem(elem, i) == elem.items[i + 1]

\* list[k] on a Python list held as a 1-based sequence: a negative k counts
\* from the end (list[-1] is the last entry).
PyIndex(list, k) == IF k < 0 THEN list[Len(list) + k + 1] ELSE list[k + 1]

\* ------------------------------------------------------- early-exit policy
IsNumber(x) == x # Inf

Abs(x) == IF x < 0 THEN -x ELSE x

\* abs(a - b) < 0.06 in IEEE arithmetic: inf - x is inf and inf - inf is nan,
\* and neither is below 0.06.
Stable(a, b) == IsNumber(a) /\ IsNumber(b) /\ Abs(a - b) < Delta

\* Locals of the gated branch of ElasticBertModel.forward before the loop.
GatedStartStale(cfg, stats) ==
  [err |-> NoErr, broke |-> FALSE, middle_result |-> << >>,
   calculated_layer_num |-> 0, kernel_counter |-> 0,
   kernel_similarity |-> [k \in 1..(cfg.num_hidden_layers - 1) |->
                            IF stats.inference_instances_num > 0 THEN 100 ELSE Inf],
   sims |-> << >>, trace |-> << >>, stats |-> stats]
GatedStart(cfg, stats) ==
  [err |-> NoErr, broke |-> FALSE, middle_result |-> << >>,
   calculated_layer_num |-> 0, kernel_counter |-> 0,
   kernel_similarity |-> [k \in 1..(cfg.num_hidden_layers - 1) |-> Inf],
   sims |-> << >>, trace |-> << >>, stats |-> stats]

\* The counter update of one loop iteration:
\*   if (middle_result is not None) and abs(ks[i-2] - ks[i-1]) < 0.06
KernelCounterAlways(middle_result, ks, i, counter) ==
  IF middle_result # << >> THEN counter + 1 ELSE 0
KernelCounterByTwo(middle_result, ks, i, counter) ==
  IF middle_result # << >> /\ Stable(PyIndex(ks, i - 2), PyIndex(ks, i - 1))
    THEN counter + 2
    ELSE 0
KernelCounter(middle_result, ks, i, counter) ==
  IF middle_result # << >> /\ Stable(PyIndex(ks, i - 2), PyIndex(ks, i - 1))
    THEN counter + 1
    ELSE 0

\* self.exiting_layer_every_ins.append(layer)
AppendExit(stats, layer) ==
  [stats EXCEPT !.exiting_layer_every_ins = Append(@, layer)]

\* if kernel_counter == self.infer_threshold
ExitTestAbove(counter, threshold) == counter > threshold
ExitTest(counter, threshold) == counter = threshold

\* logits = output_layers[i](pooled_output): head i applied to the pooled
\* output of the layer that produced it.
ExitHeadFirst(i, pooled_output) == [head |-> 0, layer |-> pooled_output.layer]
ExitHead(i, pooled_output) == [head |-> i, layer |-> pooled_output.layer]

\* One iteration (index i) of the loop of the gated branch.  encoder and
\* pooled are encoder_out[1] and encoder_out[2]; sim is the value linear_CKA
\* returns for the outputs of iterations i-1 and i (not computed at i = 0).
GatedIteration(cfg, threshold, encoder, pooled, sim, i, st) ==
  LET s1 == [st EXCEPT !.calculated_layer_num = @ + 1]
  IN IF ~HasItem(encoder, i) \/ ~HasItem(pooled, i)
       THEN [s1 EXCEPT !.err = "IndexError"]
     ELSE IF ~cfg.add_pooling_layer
       THEN [s1 EXCEPT !.err = "AssertionError"]   \* assert pooled_output is None
     ELSE IF i >= cfg.num_output_layers
       THEN [s1 EXCEPT !.err = "IndexError"]       \* output_layers[i]
     ELSE
       LET logits == ExitHead(i, GetItem(pooled, i))
           ks == IF i = 0 THEN s1.kernel_similarity
                 ELSE [s1.kernel_similarity EXCEPT ![i] = sim]
           counter == KernelCounter(s1.middle_result, ks, i, s1.kernel_counter)
           exit == ExitTest(counter, threshold)
       IN [s1 EXCEPT
             !.kernel_similarity = ks,
             !.kernel_counter = counter,
             !.middle_result = << logits >>,
             !.sims = IF i = 0 THEN @ ELSE Append(@, sim),
             !.trace = Append(@, [i |-> i, kernel_counter |-> counter]),
             !.stats = IF exit THEN AppendExit(@, i + 1) ELSE @,
             !.broke = exit]

\* Whether the loop goes on to iteration i.
LoopRuns(cfg, i, st) == i < cfg.num_hidden_layers /\ st.err = NoErr /\ ~st.broke

\* The whole loop on an input whose similarity values are sims (one per
\* layer transition).
RECURSIVE GatedLoop(_, _, _, _, _, _, _)
GatedLoop(cfg, threshold, encoder, pooled, sims, i, st) ==
  IF ~LoopRuns(cfg, i, st) THEN st
  ELSE GatedLoop(cfg, threshold, encoder, pooled, sims, i + 1,
                 GatedIteration(cfg, threshold, encoder, pooled,
                                IF i = 0 THEN Inf ELSE sims[i], i, st))

\* The statements after the loop of the gated branch.
GatedFinishAlwaysAppend(cfg, threshold, st) ==
  AppendExit([st.stats EXCEPT
                !.inference_layers_num = @ + st.calculated_layer_num,
                !.inference_instances_num = @ + 1],
             cfg.num_hidden_layers)
GatedFinish(cfg, threshold, st) ==
  LET s1 == [st.stats EXCEPT
               !.inference_layers_num = @ + st.calculated_layer_num,
               !.inference_instances_num = @ + 1]
  IN IF st.kernel_counter # threshold
       THEN AppendExit(s1, cfg.num_hidden_layers)
       ELSE s1

\* ----------------------------------------------------- ElasticBertModel.forward
\* What a forward call leaves behind: the exception (if any), the returned
\* pair (pooled, res) and the bookkeeping of the call.
\* inputs is how many of input_ids and inputs_embeds the caller gave: one in
\* every call that gets past the input check.
NoResult ==
  [err |-> NoErr, mode |-> "none", inputs |-> 1, pooled |-> << >>, res |-> << >>,
   layers_run |-> 0, rescales |-> << >>, calculated_layer_num |-> 0,
   trace |-> << >>]

\* The statistics of a model object.
Stats(instances, layers, exits) ==
  [inference_instances_num |-> instances, inference_layers_num |-> layers,
   exiting_layer_every_ins |-> exits]

\* Which branch of forward runs: the training flag is tested first.
Mode(train, highway) ==
  IF train THEN "training" ELSE IF ~highway THEN "plain" ELSE "gated"

\* encoder_out[1], encoder_out[2]: IndexError when the tuple is too short.
Unpack(enc) == IF Len(enc.out) < 3 THEN "IndexError" ELSE NoErr

\* The loop of the training branch, iteration i.
TrainingIteration(cfg, encoder, pooled, i, st) ==
  IF ~HasItem(encoder, i) \/ ~HasItem(pooled, i)
    THEN [st EXCEPT !.err = "IndexError"]
  ELSE IF ~cfg.add_pooling_layer
    THEN [st EXCEPT !.err = "AssertionError"]      \* assert pooled_output is None
  ELSE IF i >= cfg.num_output_layers
    THEN [st EXCEPT !.err = "IndexError"]          \* output_layers[i]
  ELSE [st EXCEPT
          !.res = Append(@, ExitHead(i, GetItem(pooled, i))),
          !.rescales = Append(@, [site |-> "model", layer |-> i,
                                  num |-> cfg.num_hidden_layers - i - 1, den |-> 1])]

RECURSIVE TrainingLoop(_, _, _, _, _)
TrainingLoop(cfg, encoder, pooled, i, st) ==
  IF i >= cfg.num_hidden_layers \/ st.err # NoErr THEN st
  ELSE TrainingLoop(cfg, encoder, pooled, i + 1,
                    TrainingIteration(cfg, encoder, pooled, i, st))

\* The training branch.
TrainingBranch(cfg) ==
  LET enc == EncoderForward(cfg, TRUE)
      base == [NoResult EXCEPT !.mode = "training", !.layers_run = enc.layers_run]
  IN IF enc.err # NoErr THEN [base EXCEPT !.err = enc.err]
     ELSE IF Unpack(enc) # NoErr THEN [base EXCEPT !.err = Unpack(enc)]
     ELSE LET st == TrainingLoop(cfg, enc.out[2], enc.out[3], 0,
                                 [err |-> NoErr, res |-> << >>, rescales |-> enc.rescales])
          IN IF st.err # NoErr THEN [base EXCEPT !.err = st.err]
             ELSE IF Len(st.res) # cfg.num_output_layers
               THEN [base EXCEPT !.err = "AssertionError"]
             ELSE [base EXCEPT !.pooled = enc.out[3].items, !.res = st.res,
                               !.rescales = st.rescales]

\* The plain-evaluation branch.
PlainBranch(cfg) ==
  LET enc == EncoderForward(cfg, FALSE)
      base == [NoResult EXCEPT !.mode = "plain", !.layers_run = enc.layers_run]
  IN IF enc.err # NoErr THEN [base EXCEPT !.err = enc.err]
     ELSE IF Unpack(enc) # NoErr THEN [base EXCEPT !.err = Unpack(enc)]
     ELSE IF PyLen(enc.out[3]) # cfg.num_output_layers
       THEN [base EXCEPT !.err = "AssertionError"]
     ELSE [base EXCEPT
             !.pooled = enc.out[3].items,
             !.res = [k \in 1..PyLen(enc.out[3]) |->
                        ExitHead(k - 1, GetItem(enc.out[3], k - 1))]]

\* ------------------------------- ElasticBertForSequenceClassification.forward
\* sorted(range(len(all_loss)), key=lambda k: all_loss[k]): the exit indices
\* (0-based) in ascending order of loss, ties kept in index order.
RECURSIVE SortedFrom(_, _)
SortedFrom(losses, left) ==
  IF left = {} THEN << >>
  ELSE LET k == CHOOSE a \in left :
                  \A b \in left : losses[a + 1] < losses[b + 1]
                                  \/ (losses[a + 1] = losses[b + 1] /\ a <= b)
       IN << k >> \o SortedFrom(losses, left \ {k})

sorted_idUnsorted(losses) == [k \in 1..Len(losses) |-> k - 1]
sorted_id(losses) == SortedFrom(losses, 0..(Len(losses) - 1))

\* lst[:n] and lst[n:]
Take(lst, n) == SubSeq(lst, 1, IF n < Len(lst) THEN n ELSE Len(lst))
Drop(lst, n) == SubSeq(lst, n + 1, Len(lst))

\* all_loss and all_weighted hold the per-exit loss and difficulty values
\* where they are used: in the training block that sorts and weighs them.
\* mean_prob is the input they were computed from (see difficulty_val).
NoLoss ==
  [err |-> NoErr, computed |-> FALSE, ce_terms |-> 0, all_loss |-> << >>,
   mean_prob |-> << >>, all_weighted |-> << >>,
   teachers |-> << >>, students |-> << >>,
   con_terms |-> << >>, con_weights |-> 0, distill_terms |-> << >>,
   weighted_assign |-> << >>]

RECURSIVE SumSeq(_)
SumSeq(q) == IF q = << >> THEN 0 ELSE q[1] + SumSeq(Tail(q))

\* The batch-mean logits of an exit, for num_labels = 2, are given by the
\* probability (in percent) that softmax assigns to the likelier label.
ProbValues == {50, 70, 90}

\* The entropy -sum(p * log p) of the distribution (p, 1 - p), in thousandths
\* of a nat.
Entropy(p) == CASE p = 50 -> 693 [] p = 70 -> 611 [] p = 90 -> 325

\* torch.log(num_labels) for num_labels = 2, in thousandths
LogNumLabels == 693

\* difficulty_val = torch.sum(prob * log_prob, 1) / (-torch.log(num_labels)),
\* in thousandths: sum(prob * log_prob) is minus the entropy.
difficulty_val(p) == ((0 - Entropy(p)) * 1000) \div (0 - LogNumLabels)

\* exp(x) for x in thousandths (0 <= x <= 1000), in thousandths: the Taylor
\* polynomial of degree 5, strictly increasing in x.
Exp(x) ==
  LET t2 == (x * x) \div 2000
      t3 == (t2 * x) \div 3000
      t4 == (t3 * x) \div 4000
      t5 == (t4 * x) \div 5000
  IN 1000 + x + t2 + t3 + t4 + t5

\* F.softmax(torch.cat(tea_weighted), dim=0): entry k is exp(x_k) over the
\* sum of the exponentials.
Softmax(xs) ==
  LET e == [k \in 1..Len(xs) |-> Exp(xs[k])]
  IN [k \in 1..Len(xs) |-> [num |-> e[k], den |-> SumSeq(e)]]

\* The contrastive loop over hidden_student: student number ix (0-based, in
\* sorted order) enters with weight ix + 1; con_weights is their sum.
ConTerms(students) ==
  [ix \in 1..Len(students) |-> [student |-> students[ix], weight |-> ix]]

RECURSIVE SumWeights(_)
SumWeights(terms) ==
  IF terms = << >> THEN 0 ELSE terms[1].weight + SumWeights(Tail(terms))

\* The "if self.training:" block of the loss: teacher/student split,
\* contrastive loss, distillation loss.
DistillBlock(loss, losses, probs) ==
  LET order == sorted_id(losses)
      tea == Take(order, TeacherCount)
      stu == Drop(order, TeacherCount)
      all_weighted == [k \in 1..Len(probs) |-> difficulty_val(probs[k])]
      tea_weighted == [k \in 1..Len(tea) |-> all_weighted[tea[k] + 1]]
      split == [loss EXCEPT !.all_loss = losses, !.mean_prob = probs,
                            !.all_weighted = all_weighted,
                            !.teachers = tea, !.students = stu]
  IN IF stu = << >>
       \* all_con_loss is None and con_weights is 0: None / 0
       THEN [split EXCEPT !.err = "TypeError"]
       ELSE [split EXCEPT !.con_terms = ConTerms(stu),
                          !.con_weights = SumWeights(ConTerms(stu)),
                          !.weighted_assign = Softmax(tea_weighted),
                          !.distill_terms = stu]

\* The loss part of the classification forward, after the inner model
\* returned logits: one loss term per logit set, then the training block.
ClsLoss(train, logits, has_labels, losses, probs) ==
  IF ~has_labels THEN NoLoss
  ELSE LET ce == [NoLoss EXCEPT !.computed = TRUE, !.ce_terms = Len(logits)]
       IN IF train THEN DistillBlock(ce, losses, probs) ELSE ce

\* ------------------------------------------------------------------ log_stats
\* a / b on ratios of integers (Python float division), kept exact.
Ratio(n, d) == [num |-> n, den |-> d]
RatioDiv(a, b) == Ratio(a.num * b.den, a.den * b.num)

\* ElasticBertModel.log_stats: the returned speed_up, or ZeroDivisionError.
log_statsGuarded(cfg, s) ==
  IF s.inference_instances_num = 0 \/ s.inference_layers_num = 0
    THEN [err |-> NoErr, speed_up |-> Ratio(0, 1)]
    ELSE [err |-> NoErr,
          speed_up |-> RatioDiv(Ratio(cfg.num_hidden_layers, 1),
                                Ratio(s.inference_layers_num, s.inference_instances_num))]
log_statsPerInstance(cfg, s) ==
  IF s.inference_instances_num = 0
    THEN [err |-> "ZeroDivisionError", speed_up |-> Ratio(0, 1)]
    ELSE [err |-> NoErr,
          speed_up |-> Ratio(cfg.num_hidden_layers, s.inference_layers_num)]
log_stats(cfg, s) ==
  IF s.inference_instances_num = 0
    THEN [err |-> "ZeroDivisionError", speed_up |-> Ratio(0, 1)]
  ELSE LET avg_inf_layers == Ratio(s.inference_layers_num, s.inference_instances_num)
       IN IF avg_inf_layers.num = 0
            THEN [err |-> "ZeroDivisionError", speed_up |-> Ratio(0, 1)]
            ELSE [err |-> NoErr,
                  speed_up |-> RatioDiv(Ratio(cfg.num_hidden_layers, 1), avg_inf_layers)]

\* ---------------------------------------------------------------------- state
VARIABLES
  config,                    \* the ElasticBertConfig the model was built from
  training,                  \* nn.Module.training of the model and its encoder
  infer_threshold,
  eval_highway,
  inference_instances_num,
  inference_layers_num,
  exiting_layer_every_ins,
  frame,                     \* the gated-inference call in progress: its locals
  last,                      \* the most recent finished call and what it returned
  gated_calls,               \* history: gated calls that returned since the last reset
  gated_layers               \* history: layers those calls counted as computed

vars == << config, training, infer_threshold, eval_highway,
           inference_instances_num, inference_layers_num,
           exiting_layer_every_ins, frame, last, gated_calls, gated_layers >>

stats == Stats(inference_instances_num, inference_layers_num, exiting_layer_every_ins)

NoFrame ==
  [active |-> FALSE, caller |-> "none", has_labels |-> FALSE, i |-> 0,
   st |-> GatedStart([num_hidden_layers |-> 1], Stats(0, 0, << >>))]

NoCall ==
  [op |-> "none", call |-> NoResult, loss |-> NoLoss, sims |-> << >>,
   threshold |-> 0, exit_layers |-> << >>, result |-> Ratio(0, 1), err |-> NoErr]

\* ElasticBertModel.__init__ (statistics and flags); a module is built in
\* training mode.
Init ==
  /\ config \in Configs
  /\ training = TRUE
  /\ infer_threshold = 0
  /\ eval_highway = FALSE
  /\ inference_instances_num = 0
  /\ inference_layers_num = 0
  /\ exiting_layer_every_ins = << >>
  /\ frame = NoFrame
  /\ last = NoCall
  /\ gated_calls = 0
  /\ gated_layers = 0

Idle == ~frame.active

\* nn.Module.train(mode) / eval(): sets self.training on the whole model
SetTraining(mode) ==
  /\ Idle
  /\ training' = mode
  /\ last' = [NoCall EXCEPT !.op = "train"]
  /\ UNCHANGED << config, infer_threshold, eval_highway, inference_instances_num,
                  inference_layers_num, exiting_layer_every_ins, frame,
                  gated_calls, gated_layers >>

set_infer_threshold(t) ==
  /\ Idle
  /\ infer_threshold' = t
  /\ last' = [NoCall EXCEPT !.op = "set_infer_threshold"]
  /\ UNCHANGED << config, training, eval_highway, inference_instances_num,
                  inference_layers_num, exiting_layer_every_ins, frame,
                  gated_calls, gated_layers >>

set_eval_state(b) ==
  /\ Idle
  /\ eval_highway' = b
  /\ last' = [NoCall EXCEPT !.op = "set_eval_state"]
  /\ UNCHANGED << config, training, infer_threshold, inference_instances_num,
                  inference_layers_num, exiting_layer_every_ins, frame,
                  gated_calls, gated_layers >>

\* What reset_stats assigns.
ResetValue(s) == Stats(0, 0, << >>)

\* Writes a statistics record back to the model object.
SetStats(s) ==
  /\ inference_instances_num' = s.inference_instances_num
  /\ inference_layers_num' = s.inference_layers_num
  /\ exiting_layer_every_ins' = s.exiting_layer_every_ins

reset_statsAndFlags ==
  /\ Idle
  /\ SetStats(ResetValue(stats))
  /\ last' = [NoCall EXCEPT !.op = "reset_stats"]
  /\ gated_calls' = 0
  /\ gated_layers' = 0
  /\ infer_threshold' = 0
  /\ eval_highway' = FALSE
  /\ UNCHANGED << config, training, frame >>

reset_stats ==
  /\ Idle
  /\ SetStats(ResetValue(stats))
  /\ last' = [NoCall EXCEPT !.op = "reset_stats"]
  /\ gated_calls' = 0
  /\ gated_layers' = 0
  /\ UNCHANGED << config, training, infer_threshold, eval_highway, frame >>

LogStats ==
  LET r == log_stats(config, stats)
  IN /\ Idle
     /\ last' = [NoCall EXCEPT !.op = "log_stats", !.err = r.err, !.result = r.speed_up]
     /\ UNCHANGED << config, training, infer_threshold, eval_highway,
                     inference_instances_num, inference_layers_num,
                     exiting_layer_every_ins, frame, gated_calls, gated_layers >>

\* ------------------------------------------------------------- forward calls
\* The part of ElasticBertModel.forward that runs before the gated loop (all
\* of it in the other modes): input check, mode selection, encoder.
\* enter = TRUE when the call goes on into the gated loop.
InputCount(has_ids, has_embeds) ==
  (IF has_ids THEN 1 ELSE 0) + (IF has_embeds THEN 1 ELSE 0)

ForwardHeadBothOnly(cfg, train, highway, has_ids, has_embeds) ==
  IF has_ids /\ has_embeds
    THEN [enter |-> FALSE,
          result |-> [NoResult EXCEPT !.err = "ValueError", !.mode = Mode(train, highway),
                                      !.inputs = 2]]
  ELSE IF train
    THEN [enter |-> FALSE,
          result |-> [TrainingBranch(cfg) EXCEPT
                        !.inputs = InputCount(has_ids, has_embeds)]]
    ELSE [enter |-> FALSE,
          result |-> [PlainBranch(cfg) EXCEPT
                        !.inputs = InputCount(has_ids, has_embeds)]]
ForwardHead(cfg, train, highway, has_ids, has_embeds) ==
  IF has_ids = has_embeds
    THEN [enter |-> FALSE,
          result |-> [NoResult EXCEPT !.err = "ValueError", !.mode = Mode(train, highway),
                                      !.inputs = InputCount(has_ids, has_embeds)]]
  ELSE IF train THEN [enter |-> FALSE, result |-> TrainingBranch(cfg)]
  ELSE IF ~highway THEN [enter |-> FALSE, result |-> PlainBranch(cfg)]
  ELSE LET enc == EncoderForward(cfg, FALSE)
           base == [NoResult EXCEPT !.mode = "gated", !.layers_run = enc.layers_run]
       IN IF enc.err # NoErr
            THEN [enter |-> FALSE, result |-> [base EXCEPT !.err = enc.err]]
          ELSE IF Unpack(enc) # NoErr
            THEN [enter |-> FALSE, result |-> [base EXCEPT !.err = Unpack(enc)]]
          ELSE [enter |-> TRUE, result |-> base]

\* The statements of ElasticBertForSequenceClassification.forward after the
\* inner model returned (NoLoss when called on ElasticBertModel directly).
\* A call that raises hands its caller the exception alone: the locals of
\* the loss computation are gone.
Continuation(caller, train, result, has_labels, losses, probs) ==
  IF caller = "cls_forward" /\ result.err = NoErr
    THEN LET loss == ClsLoss(train, result.res, has_labels, losses, probs)
         IN IF loss.err = NoErr THEN loss
            ELSE [NoLoss EXCEPT !.err = loss.err, !.computed = loss.computed]
    ELSE NoLoss

\* A forward call returns (or raises): what it leaves in last.
Finished(caller, result, loss, sims, exits) ==
  [NoCall EXCEPT !.op = caller, !.call = result, !.loss = loss, !.sims = sims,
                 !.threshold = infer_threshold, !.exit_layers = exits,
                 !.err = IF result.err # NoErr THEN result.err ELSE loss.err]

\* A call of forward up to the gated loop; the other modes run to the end.
\* h is what ForwardHead gives for the call's arguments; losses and probs are
\* the per-exit loss values and batch-mean probabilities the input gives.
Call(caller, h, has_labels, losses, probs) ==
  /\ Idle
  /\ IF h.enter
       THEN /\ inference_instances_num < MaxCalls
            /\ frame' = [active |-> TRUE, caller |-> caller,
                         has_labels |-> has_labels, i |-> 0,
                         st |-> GatedStart(config, stats)]
            /\ last' = [NoCall EXCEPT !.op = "running"]
       ELSE /\ frame' = NoFrame
            /\ last' = Finished(caller, h.result,
                                Continuation(caller, training, h.result,
                                             has_labels, losses, probs),
                                << >>, << >>)
  /\ UNCHANGED << config, training, infer_threshold, eval_highway,
                  inference_instances_num, inference_layers_num,
                  exiting_layer_every_ins, gated_calls, gated_layers >>

\* ElasticBertModel.forward
Forward ==
  /\ Idle
  /\ \E has_ids \in BOOLEAN, has_embeds \in BOOLEAN :
       \E h \in {ForwardHead(config, training, eval_highway, has_ids, has_embeds)} :
          Call("forward", h, FALSE, << >>, << >>)

\* The loss values of the exits matter to the control flow only where they
\* are sorted: in training, with labels, when the inner model returned.
LossInputs(h, has_labels) ==
  IF training /\ has_labels /\ ~h.enter /\ h.result.err = NoErr
    THEN [1..Len(h.result.res) -> LossValues]
    ELSE { << >> }

\* An input on which every exit's batch-mean logits are uniform.
UniformProbs(losses) == [k \in 1..Len(losses) |-> 50]

\* ElasticBertForSequenceClassification.forward
ClsForward ==
  /\ Idle
  /\ \E has_ids \in BOOLEAN, has_embeds \in BOOLEAN :
       \E h \in {ForwardHead(config, training, eval_highway, has_ids, has_embeds)} :
          \E has_labels \in BOOLEAN :
             \E losses \in LossInputs(h, has_labels) :
                Call("cls_forward", h, has_labels, losses, UniformProbs(losses))

\* One iteration of the gated loop; the input decides the similarity value.
GatedStep ==
  /\ frame.active
  /\ LoopRuns(config, frame.i, frame.st)
  /\ \E enc \in {EncoderForward(config, FALSE)} :
       \E sim \in (IF frame.i = 0 THEN {Inf} ELSE SimValues) :
          \E st \in {GatedIteration(config, infer_threshold, enc.out[2], enc.out[3],
                                    sim, frame.i, frame.st)} :
             /\ frame' = [frame EXCEPT !.i = @ + 1, !.st = st]
             /\ SetStats(st.stats)
  /\ UNCHANGED << config, training, infer_threshold, eval_highway, last,
                  gated_calls, gated_layers >>

\* The statements after the loop, and the return to the caller.
GatedReturn ==
  /\ frame.active
  /\ ~LoopRuns(config, frame.i, frame.st)
  /\ \E enc \in {EncoderForward(config, FALSE)} :
       LET st == frame.st
           base == [NoResult EXCEPT !.mode = "gated", !.layers_run = enc.layers_run,
                                    !.calculated_layer_num = st.calculated_layer_num,
                                    !.trace = st.trace]
       IN IF st.err # NoErr
            THEN /\ last' = Finished(frame.caller, [base EXCEPT !.err = st.err], NoLoss,
                                     st.sims, << >>)
                 /\ UNCHANGED << inference_instances_num, inference_layers_num,
                                 exiting_layer_every_ins, gated_calls, gated_layers >>
            ELSE \E after \in {GatedFinish(config, infer_threshold, st)} :
                   LET result == [base EXCEPT !.pooled = enc.out[3].items,
                                              !.res = st.middle_result]
                   IN /\ SetStats(after)
                      /\ gated_calls' = gated_calls + 1
                      /\ gated_layers' = gated_layers + st.calculated_layer_num
                      /\ last' = Finished(frame.caller, result,
                                          Continuation(frame.caller, training, result,
                                                       frame.has_labels, << >>, << >>),
                                          st.sims,
                                          SubSeq(after.exiting_layer_every_ins,
                                                 Len(exiting_layer_every_ins) + 1
                                                   - (IF st.broke THEN 1 ELSE 0),
                                                 Len(after.exiting_layer_every_ins)))
  /\ frame' = NoFrame
  /\ UNCHANGED << config, training, infer_threshold, eval_highway >>

\* ----------------------------------------------------------- derived notions
\* The gated loop and the statements after it on the encoder outputs enc, for
\* an input with similarity values sims: the exit layers appended to an
\* empty log.
GatedRun(cfg, enc, threshold, sims) ==
  GatedFinish(cfg, threshold,
              GatedLoop(cfg, threshold, enc.out[2], enc.out[3], sims, 0,
                        GatedStart(cfg, Stats(0, 0, << >>)))).exiting_layer_every_ins

\* The loop of the gated branch run on a model with empty statistics.
GatedFresh(cfg, enc, threshold, sims) ==
  GatedLoop(cfg, threshold, enc.out[2], enc.out[3], sims, 0,
            GatedStart(cfg, Stats(0, 0, << >>)))

\* The gated branch as a whole.
ExitLayers(cfg, threshold, sims) ==
  GatedRun(cfg, EncoderForward(cfg, FALSE), threshold, sims)

ForwardOps == {"forward", "cls_forward"}

\* A forward call has just finished (returned or raised) in the given mode.
FinishedIn(mode) == Idle /\ last.op \in ForwardOps /\ last.call.mode = mode

\* A gated-inference call has just returned.
GatedReturned == FinishedIn("gated") /\ last.err = NoErr

\* The configuration lets every exit layer find its pooler.
PoolersFit ==
  config.add_pooling_layer /\ config.max_output_layers >= config.num_hidden_layers

IsPrefix(p, q) == Len(p) <= Len(q) /\ SubSeq(q, 1, Len(p)) = p

\* Successive similarity values all differ by less than 0.06.
AllStable(q) == \A k \in 1..(Len(q) - 1) : Abs(q[k] - q[k + 1]) < Delta

Next ==
  \/ \E mode \in BOOLEAN : SetTraining(mode)
  \/ \E t \in 0..MaxThreshold : set_infer_threshold(t)
  \/ \E b \in BOOLEAN : set_eval_state(b)
  \/ reset_stats
  \/ LogStats
  \/ Forward
  \/ ClsForward
  \/ GatedStep
  \/ GatedReturn

Spec == Init /\ [][Next]_vars

\* ------------------------------------------------- training with many exits
\* Models with more exits than teachers, in training mode: the classification
\* forward is called with every assignment of loss values 1..MaxLoss to the
\* exits.
SplitLayers == {7, 8}

SplitConfigs ==
  { c \in [num_hidden_layers : SplitLayers, num_output_layers : SplitLayers,
           max_output_layers : {8}, add_pooling_layer : {TRUE}] :
      c.num_output_layers <= c.num_hidden_layers }

SplitInit ==
  /\ config \in SplitConfigs
  /\ training = TRUE
  /\ infer_threshold = 0
  /\ eval_highway = FALSE
  /\ inference_instances_num = 0
  /\ inference_layers_num = 0
  /\ exiting_layer_every_ins = << >>
  /\ frame = NoFrame
  /\ last = NoCall
  /\ gated_calls = 0
  /\ gated_layers = 0

SplitLossInputs(h, has_labels) ==
  IF training /\ has_labels /\ ~h.enter /\ h.result.err = NoErr
    THEN [1..Len(h.result.res) -> 1..MaxLoss]
    ELSE { << >> }

\* ElasticBertForSequenceClassification.forward, the first call on a model:
\* a training call assigns no attribute, so every later call starts from the
\* same state.
SplitClsForward ==
  /\ Idle
  /\ last.op = "none"
  /\ \E has_ids \in BOOLEAN, has_embeds \in BOOLEAN :
       \E h \in {ForwardHead(config, training, eval_highway, has_ids, has_embeds)} :
          \E has_labels \in BOOLEAN :
             \E losses \in SplitLossInputs(h, has_labels) :
                Call("cls_forward", h, has_labels, losses, UniformProbs(losses))

SplitNext == SplitClsForward

SplitSpec == SplitInit /\ [][SplitNext]_vars

\* --------------------------------------------------------- teacher ensemble
\* The same models, called with every assignment of batch-mean probabilities
\* to the exits, on inputs whose losses rise or fall with the exit index.
EnsembleLossInputs(h, has_labels) ==
  IF training /\ has_labels /\ ~h.enter /\ h.result.err = NoErr
    THEN { [k \in 1..Len(h.result.res) |-> k],
           [k \in 1..Len(h.result.res) |-> Len(h.result.res) + 1 - k] }
    ELSE { << >> }

EnsembleProbInputs(h, has_labels) ==
  IF training /\ has_labels /\ ~h.enter /\ h.result.err = NoErr
    THEN [1..Len(h.result.res) -> ProbValues]
    ELSE { << >> }

\* ElasticBertForSequenceClassification.forward, the first call on a model
EnsembleClsForward ==
  /\ Idle
  /\ last.op = "none"
  /\ \E has_ids \in BOOLEAN, has_embeds \in BOOLEAN :
       \E h \in {ForwardHead(config, training, eval_highway, has_ids, has_embeds)} :
          \E has_labels \in BOOLEAN :
             \E losses \in EnsembleLossInputs(h, has_labels) :
                \E probs \in EnsembleProbInputs(h, has_labels) :
                   Call("cls_forward", h, has_labels, losses, probs)

EnsembleNext == EnsembleClsForward

EnsembleSpec == SplitInit /\ [][EnsembleNext]_vars


\* ---------------------------------------------------------------------- claims
\* C1 (as stated): for N >= 3, a gated-inference call with infer_threshold = 0
\* that returns records one exit layer, in the range 3..N.
C1_ExitAtLeastThree ==
  (GatedReturned /\ config.num_hidden_layers >= 3 /\ last.threshold = 0)
    => /\ Len(last.exit_layers) = 1
       /\ last.exit_layers[1] \in 3..config.num_hidden_layers

\* C1 (amended): a gated-inference call with infer_threshold = 0 records no
\* exit layer other than 1, and records exactly layer 1 when it returns: the
\* counter is 0 at layer index 0 and is compared with the threshold there.
C1_ExitAtLayerOne ==
  (FinishedIn("gated") /\ last.threshold = 0)
    => /\ last.exit_layers \in { << >>, << 1 >> }
       /\ last.err = NoErr => last.exit_layers = << 1 >>

C1_Witness ==
  /\ GatedReturned
  /\ config.num_hidden_layers >= 3
  /\ last.threshold = 0
  /\ last.exit_layers = << 1 >>
  /\ last.call.calculated_layer_num = 1

\* C2: in a gated-inference call that returns, no transformer layer with an
\* index above that of the stopping layer has been executed (the number of
\* layers run does not exceed the recorded exit layer).
C2_NoLayerPastExit ==
  GatedReturned
    => \A k \in 1..Len(last.exit_layers) : last.call.layers_run <= last.exit_layers[k]

\* C3: a training-mode call of ElasticBertModel.forward with a valid input
\* (and a pooler for every exit) completes and returns exactly
\* num_output_layers logit sets and num_output_layers pooled outputs.
C3_TrainingReturnsK ==
  (FinishedIn("training") /\ last.op = "forward" /\ PoolersFit
     /\ last.err # "ValueError")
    => /\ last.err = NoErr
       /\ Len(last.call.res) = config.num_output_layers
       /\ Len(last.call.pooled) = config.num_output_layers

\* C4: a training-mode classification call with labels and at most six exits
\* completes without error, with every exit a teacher, no student, and no
\* contrastive or distillation term.
C4_NoStudentsNoError ==
  (FinishedIn("training") /\ last.op = "cls_forward" /\ last.loss.computed
     /\ config.num_output_layers <= TeacherCount)
    => /\ last.err = NoErr
       /\ Len(last.loss.teachers) = Len(last.call.res)
       /\ last.loss.students = << >>
       /\ last.loss.con_terms = << >>
       /\ last.loss.distill_terms = << >>

\* C5: for a fixed input and a fixed model, the exit layer gated inference
\* records does not decrease when infer_threshold grows; the layer the call
\* recorded is the one the input gives at the call's threshold.
C5_Monotone ==
  GatedReturned
    => \A enc \in {EncoderForward(config, FALSE)} :
         \A sims \in [1..(config.num_hidden_layers - 1) -> SimValues] :
           IsPrefix(last.sims, sims)
             => \A exit \in {[t \in 0..(MaxThreshold + 1) |->
                                GatedRun(config, enc, t, sims)]} :
                  /\ exit[last.threshold] = last.exit_layers
                  /\ \A t \in DOMAIN exit : Len(exit[t]) = 1
                  /\ \A t1, t2 \in DOMAIN exit :
                       t1 <= t2 => exit[t1][1] <= exit[t2][1]

\* A call at threshold 1 that exits before the last layer on an input that
\* runs to the last layer at threshold 2.
C5_Witness ==
  /\ GatedReturned
  /\ config.num_hidden_layers >= 4
  /\ last.threshold = 1
  /\ last.exit_layers = << 3 >>
  /\ \E sims \in [1..(config.num_hidden_layers - 1) -> SimValues] :
       /\ IsPrefix(last.sims, sims)
       /\ ExitLayers(config, 2, sims) = << config.num_hidden_layers >>

\* C6: with six hidden layers, one output layer and infer_threshold = 1, a
\* gated-inference call on an input whose successive similarities all differ
\* by less than 0.06 completes without error and records an exit layer < 6.
C6_ScenarioExitsEarly ==
  (FinishedIn("gated") /\ config.num_hidden_layers = 6
     /\ config.num_output_layers = 1 /\ last.threshold = 1
     /\ last.err # "ValueError" /\ AllStable(last.sims))
    => /\ last.err = NoErr
       /\ Len(last.exit_layers) = 1
       /\ last.exit_layers[1] < config.num_hidden_layers

\* C7: a gated-inference call that returns has counted at most N layers and
\* returns one logit set, the one of the exit head of the recorded exit layer
\* (index = recorded layer - 1), applied to that layer's pooled output.
C7_OneLogitSetOfExitLayer ==
  GatedReturned
    => /\ last.call.calculated_layer_num <= config.num_hidden_layers
       /\ Len(last.call.res) = 1
       /\ Len(last.exit_layers) = 1
       /\ last.call.res[1].head = last.exit_layers[1] - 1
       /\ last.call.res[1].layer = last.exit_layers[1] - 1

\* The stack was exhausted with the counter still below the threshold.
C7_Witness ==
  /\ GatedReturned
  /\ config.num_hidden_layers >= 3
  /\ last.call.trace[Len(last.call.trace)].kernel_counter # last.threshold
  /\ last.exit_layers = << config.num_hidden_layers >>
  /\ last.call.res = << [head |-> config.num_hidden_layers - 1,
                         layer |-> config.num_hidden_layers - 1] >>

\* C8: between calls, inference_instances_num is the number of gated calls
\* that returned since the last reset and the length of
\* exiting_layer_every_ins, inference_layers_num is the sum of its entries
\* (and of the layers the calls counted), and every entry is in 1..N.
C8_StatsConsistent ==
  Idle
    => /\ inference_instances_num = gated_calls
       /\ inference_instances_num = Len(exiting_layer_every_ins)
       /\ inference_layers_num = SumSeq(exiting_layer_every_ins)
       /\ inference_layers_num = gated_layers
       /\ \A k \in 1..Len(exiting_layer_every_ins) :
            exiting_layer_every_ins[k] \in 1..config.num_hidden_layers

\* Two calls recorded, one stopped by the counter and one by exhaustion.
C8_Witness ==
  /\ Idle
  /\ gated_calls = 2
  /\ Len(exiting_layer_every_ins) = 2
  /\ exiting_layer_every_ins[1] < exiting_layer_every_ins[2]
  /\ exiting_layer_every_ins[2] = config.num_hidden_layers

\* C9: the statistics change only inside a gated-inference call and in
\* reset_stats; a call that finishes in training or plain-evaluation mode,
\* the setters and log_stats leave them as they were, and reset_stats leaves
\* infer_threshold and eval_highway as they were.
C9_StatsFrame ==
  [][ /\ (stats' # stats)
         => \/ (frame.active /\ Mode(training, eval_highway) = "gated")
            \/ (Idle /\ last'.op = "reset_stats")
      /\ (Idle /\ last'.op \in ForwardOps
            /\ last'.call.mode \in {"training", "plain"})
         => stats' = stats
      /\ (Idle /\ last'.op \in {"train", "set_infer_threshold", "set_eval_state",
                                "log_stats", "running"})
         => stats' = stats
      /\ (Idle /\ last'.op = "reset_stats")
         => (infer_threshold' = infer_threshold /\ eval_highway' = eval_highway)
    ]_vars

\* A training-mode call finished with eval_highway set and statistics
\* recorded earlier still in place.
C9_Witness ==
  /\ FinishedIn("training")
  /\ last.err = NoErr
  /\ eval_highway
  /\ inference_instances_num > 0
  /\ infer_threshold > 0

\* C10: after m >= 1 gated calls since the last reset, log_stats returns
\* N * m / (layers counted by those calls), a value between 1 and N.
C10_SpeedUp ==
  (Idle /\ last.op = "log_stats" /\ gated_calls >= 1)
    => /\ last.err = NoErr
       /\ last.result.den > 0
       /\ last.result.num * gated_layers
            = config.num_hidden_layers * gated_calls * last.result.den
       /\ last.result.den <= last.result.num
       /\ last.result.num <= config.num_hidden_layers * last.result.den

C10_Witness ==
  /\ Idle
  /\ last.op = "log_stats"
  /\ last.err = NoErr
  /\ gated_calls = 2
  /\ gated_layers > 2
  /\ gated_layers < 2 * config.num_hidden_layers

\* C11: log_stats called with no instance recorded (at construction or after
\* reset_stats) raises ZeroDivisionError instead of returning a ratio, and
\* leaves the statistics, infer_threshold and eval_highway as they were.
C11_ZeroInstances ==
  [][ (Idle /\ last'.op = "log_stats" /\ inference_instances_num = 0)
        => /\ last'.err = "ZeroDivisionError"
           /\ stats' = stats
           /\ infer_threshold' = infer_threshold
           /\ eval_highway' = eval_highway
    ]_vars

\* log_stats raised on a model whose threshold and gating flag were set.
C11_Witness ==
  /\ Idle
  /\ last.op = "log_stats"
  /\ last.err = "ZeroDivisionError"
  /\ inference_instances_num = 0
  /\ exiting_layer_every_ins = << >>
  /\ infer_threshold > 0
  /\ eval_highway

\* C12: a forward call given both input_ids and inputs_embeds, or neither,
\* raises ValueError in every mode before any layer is run, returns no
\* partial result, and leaves the inference statistics as they were.
C12_InputContract ==
  [][ (Idle /\ last'.op \in ForwardOps /\ last'.call.inputs # 1)
        => /\ last'.err = "ValueError"
           /\ last'.call.err = "ValueError"
           /\ last'.call.mode = Mode(training, eval_highway)
           /\ last'.call.layers_run = 0
           /\ last'.call.pooled = << >>
           /\ last'.call.res = << >>
           /\ last'.loss = NoLoss
           /\ frame' = NoFrame
           /\ stats' = stats
    ]_vars

\* A gated-inference call given neither input was rejected on a model that
\* has statistics recorded.
C12_Witness ==
  /\ FinishedIn("gated")
  /\ last.call.inputs = 0
  /\ last.err = "ValueError"
  /\ inference_instances_num > 0
  /\ Len(exiting_layer_every_ins) > 0

\* The exits of a sequence of exit indices, as a set.
Range(q) == { q[k] : k \in 1..Len(q) }

\* C13: in a training call with labels and K > 6 exits, for every assignment
\* of loss values to the exits, there are exactly 6 teachers and K - 6
\* students, no exit is both, every exit is one of them, and no teacher's loss
\* is above a student's loss.
C13_TeacherStudentSplit ==
  (FinishedIn("training") /\ last.op = "cls_forward" /\ last.call.err = NoErr
     /\ last.loss.computed /\ config.num_output_layers > TeacherCount)
    => LET K == config.num_output_layers
           tea == last.loss.teachers
           stu == last.loss.students
       IN /\ last.err = NoErr
          /\ Len(last.loss.all_loss) = K
          /\ Len(tea) = 6 /\ Cardinality(Range(tea)) = 6
          /\ Len(stu) = K - 6 /\ Cardinality(Range(stu)) = K - 6
          /\ Range(tea) \cap Range(stu) = {}
          /\ Range(tea) \cup Range(stu) = 0..(K - 1)
          /\ \A a \in Range(tea), b \in Range(stu) :
               last.loss.all_loss[a + 1] <= last.loss.all_loss[b + 1]

\* Eight exits, a tie across the teacher/student boundary, and a teacher
\* that comes after a student in layer order.
C13_Witness ==
  /\ FinishedIn("training")
  /\ last.op = "cls_forward"
  /\ last.err = NoErr
  /\ last.loss.computed
  /\ config.num_output_layers = 8
  /\ Len(last.loss.students) = 2
  /\ \E a \in Range(last.loss.teachers), b \in Range(last.loss.students) :
       last.loss.all_loss[a + 1] = last.loss.all_loss[b + 1]
  /\ \E a \in Range(last.loss.teachers), b \in Range(last.loss.students) :
       a > b /\ last.loss.all_loss[a + 1] < last.loss.all_loss[b + 1]

\* C14: with the same weights, the same input and dropout disabled, a
\* plain-evaluation call and a training-mode call produce the same number of
\* logit sets and the same logits at every exit (head i on the pooled output
\* of exit i): whenever a call in one of the two modes returns, the call in
\* the other mode on the same model returns the same logit sets.
C14_PlainEqualsTraining ==
  (Idle /\ last.op = "forward" /\ last.call.mode \in {"plain", "training"}
     /\ last.err = NoErr)
    => \A other \in {IF last.call.mode = "plain" THEN TrainingBranch(config)
                                                ELSE PlainBranch(config)} :
         /\ other.err = NoErr
         /\ Len(other.res) = Len(last.call.res)
         /\ other.res = last.call.res

\* A forward call that passed the input check has just finished: the
\* encoder ran in the mode last.call.mode.
EncoderRan == Idle /\ last.op \in ForwardOps /\ last.call.inputs = 1

\* C15 (as stated): the layers at which the encoder emits an exit are all N
\* layers when num_output_layers > 1 and exactly the last layer when
\* num_output_layers = 1.
C15_AllLayersExit ==
  EncoderRan
    => EmittedExits(config, last.call.mode = "training")
         = (IF config.num_output_layers > 1
              THEN 0..(config.num_hidden_layers - 1)
              ELSE {config.num_hidden_layers - 1})

\* C15 (amended): the encoder emits exits only at the last num_output_layers
\* layers, N-K .. N-1 (the last layer alone when K = 1), and at every one of
\* them when its forward pass returns.
C15_LastKLayersExit ==
  EncoderRan
    => \A enc \in {EncoderForward(config, last.call.mode = "training")} :
         \A exits \in {EmittedExits(config, last.call.mode = "training")} :
           LET N == config.num_hidden_layers
               K == config.num_output_layers
           IN /\ exits \subseteq (N - K)..(N - 1)
              /\ enc.err = NoErr => exits = (N - K)..(N - 1)

\* A model with fewer exits than layers whose plain-evaluation call
\* returned the pooled outputs of its last two layers only.
C15_Witness ==
  /\ FinishedIn("plain")
  /\ last.err = NoErr
  /\ config.num_hidden_layers = 4
  /\ config.num_output_layers = 2
  /\ EmittedExits(config, FALSE) = {2, 3}
  /\ Len(last.call.pooled) = 2
  /\ last.call.pooled[1].layer = 2

\* The layers the constructor designates as exits.
ExitLayerSet(cfg) ==
  IF cfg.num_output_layers > 1
    THEN (cfg.num_hidden_layers - cfg.num_output_layers)..(cfg.num_hidden_layers - 1)
    ELSE {cfg.num_hidden_layers - 1}

\* The rescale operations of a finished call: those of the encoder pass and
\* those of the model's own loop.
AppliedRescales ==
  Range(EncoderForward(config, last.call.mode = "training").rescales)
    \cup Range(last.call.rescales)

\* C16: the gradient-rescale gate is applied only when the training flag is
\* set: a plain-evaluation or gated-inference call applies no rescale at any
\* layer, and a training call applies it at exit layers only.
C16_RescaleOnlyInTraining ==
  EncoderRan
    => /\ last.call.mode \in {"plain", "gated"} => AppliedRescales = {}
       /\ last.call.mode = "training"
            => \A r \in AppliedRescales : r.layer \in ExitLayerSet(config)

\* A training call on a model whose first two layers are not exits: the
\* encoder rescaled at layers 2 and 3 and nowhere else.
C16_Witness ==
  /\ FinishedIn("training")
  /\ last.call.inputs = 1
  /\ config.num_hidden_layers = 4
  /\ config.num_output_layers = 2
  /\ { r.layer : r \in AppliedRescales } = {2, 3}
  /\ Cardinality(AppliedRescales) = 4

\* The similarity values of an input of which the call saw the first Len(q):
\* the values of the transitions after the exit are v.
PadSims(q, n, v) == [k \in 1..n |-> IF k <= Len(q) THEN q[k] ELSE v]

\* C17: gated inference keeps no state between calls.  The locals of a call
\* start fresh (no previous logits, counter 0, similarity trace all inf,
\* no layer counted), and the exit layer a call records and the logits it
\* returns are those the same input and threshold give on a model with empty
\* statistics, whatever was recorded before.
C17_Stateless ==
  /\ (frame.active /\ frame.i = 0)
       => /\ frame.st.middle_result = << >>
          /\ frame.st.kernel_counter = 0
          /\ frame.st.calculated_layer_num = 0
          /\ \A k \in DOMAIN frame.st.kernel_similarity :
               frame.st.kernel_similarity[k] = Inf
  /\ GatedReturned
       => \A enc \in {EncoderForward(config, FALSE)} :
            \A v \in SimValues :
              \A st \in {GatedFresh(config, enc, last.threshold,
                                     PadSims(last.sims, config.num_hidden_layers - 1, v))} :
                /\ st.err = NoErr
                /\ st.middle_result = last.call.res
                /\ st.sims = last.sims
                /\ st.trace = last.call.trace
                /\ GatedFinish(config, last.threshold, st).exiting_layer_every_ins
                     = last.exit_layers

\* The second call since the reset exited early at threshold 1, after a call
\* that recorded another exit layer.
C17_Witness ==
  /\ GatedReturned
  /\ config.num_hidden_layers >= 4
  /\ last.threshold = 1
  /\ last.exit_layers = << 3 >>
  /\ exiting_layer_every_ins = << 1, 3 >>

\* The length of the run of consecutive stable transitions that ends at loop
\* index i: sims[k] is the similarity of the outputs of layers k-1 and k.
RECURSIVE StableRun(_, _)
StableRun(sims, i) ==
  IF i < 2 THEN 0
  ELSE IF Abs(sims[i - 1] - sims[i]) < Delta THEN StableRun(sims, i - 1) + 1
  ELSE 0

\* The counter values along a trace of loop iterations are the run lengths.
CounterIsRun(trace, sims) ==
  \A k \in 1..Len(trace) : trace[k].kernel_counter = StableRun(sims, trace[k].i)

\* C18: for every N >= 2, at each step of the gated loop kernel_counter is
\* incremented only when i >= 2 and the two latest similarity values of this
\* call differ by less than 0.06, and is 0 after every other step (i = 0 and
\* i = 1 included): it is the length of the current run of stable transitions.
C18_CounterIsRunLength ==
  config.num_hidden_layers >= 2
    => /\ frame.active => CounterIsRun(frame.st.trace, frame.st.sims)
       /\ FinishedIn("gated") => CounterIsRun(last.call.trace, last.sims)

\* a > b on ratios with positive denominators
RatioGreater(a, b) == a.num * b.den > b.num * a.den

\* C19: in a training call that builds the teacher ensemble, a teacher whose
\* batch-mean logits have lower entropy gets a higher ensemble weight than a
\* teacher with higher entropy.
C19_LowEntropyHighWeight ==
  (FinishedIn("training") /\ last.op = "cls_forward" /\ last.err = NoErr
     /\ last.loss.weighted_assign # << >>)
    => \A a, b \in 1..Len(last.loss.teachers) :
         Entropy(last.loss.mean_prob[last.loss.teachers[a] + 1])
           < Entropy(last.loss.mean_prob[last.loss.teachers[b] + 1])
         => RatioGreater(last.loss.weighted_assign[a], last.loss.weighted_assign[b])

\* C20: in a training call on a model with K > 1 exits, for every exit layer
\* j the product of the backward scale factors from exit j's head back to
\* the input of the first exit layer is 1/K, the same for every exit.
C20_GatesEqualise ==
  (FinishedIn("training") /\ last.call.inputs = 1 /\ config.num_output_layers > 1)
    => \A enc \in {EncoderForward(config, TRUE)} :
         enc.err = NoErr
           => /\ last.err = NoErr
                   => SelectSeq(last.call.rescales, LAMBDA r : r.site = "encoder")
                        = enc.rescales
              /\ \A j \in ExitLayerSet(config) :
                   \A scale \in {BackwardScale(GradientPath(enc.rescales, j))} :
                     /\ scale.num > 0
                     /\ scale.num * config.num_output_layers = scale.den

\* A training call on a four-exit model returned; the gates on the path of
\* the last exit multiply to 6/24.
C20_Witness ==
  /\ FinishedIn("training")
  /\ last.err = NoErr
  /\ config.num_hidden_layers = 4
  /\ config.num_output_layers = 4
  /\ BackwardScale(GradientPath(last.call.rescales, 3)) = [num |-> 6, den |-> 24]

\* C21: with a pooler configured and 1 <= K <= N <= max_output_layers, at
\* every exit layer the slot of the pooler bank that the encoder's forward
\* pass selects holds a constructed pooler, never None, so the pass raises
\* no error.
C21_PoolerSlotFilled ==
  (EncoderRan /\ config.add_pooling_layer
     /\ config.num_output_layers <= config.num_hidden_layers
     /\ config.num_hidden_layers <= config.max_output_layers)
    => /\ \A i \in ExitLayerSet(config) :
            PoolerCall(config, PoolerSlot(config, i)) = NoErr
       /\ EncoderForward(config, last.call.mode = "training").err = NoErr

\* min(a, b)
Min(a, b) == IF a < b THEN a ELSE b

\* Along a trace of loop iterations the counter is 0 after indices 0 and 1
\* and at most i - 1 after index i.
CounterBounded(trace) ==
  \A k \in 1..Len(trace) :
     trace[k].kernel_counter <= (IF trace[k].i < 2 THEN 0 ELSE trace[k].i - 1)

\* C22: for N >= 3 and infer_threshold t >= 1, gated inference never records
\* an exit layer below min(t + 2, N): the counter is 0 after layer indices 0
\* and 1 and grows by at most 1 per layer, so it can first equal t at layer
\* index t + 1.
C22_NoEarlyExit ==
  (config.num_hidden_layers >= 3 /\ infer_threshold >= 1)
    => /\ frame.active
            => /\ CounterBounded(frame.st.trace)
               /\ frame.st.broke
                    => exiting_layer_every_ins[Len(exiting_layer_every_ins)]
                         >= Min(infer_threshold + 2, config.num_hidden_layers)
       /\ FinishedIn("gated")
            => /\ CounterBounded(last.call.trace)
               /\ \A k \in 1..Len(last.exit_layers) :
                    last.exit_layers[k]
                      >= Min(last.threshold + 2, config.num_hidden_layers)

\* At threshold 1 the counter reached 1 at layer index 2, the first index
\* at which it can, and the call exited at layer 3 of 4.
C22_Witness ==
  /\ GatedReturned
  /\ config.num_hidden_layers = 4
  /\ last.threshold = 1
  /\ last.call.trace[Len(last.call.trace)] = [i |-> 2, kernel_counter |-> 1]
  /\ last.exit_layers = << 3 >>
  /\ last.call.calculated_layer_num = 3

====
